---- MODULE Spec2Model ----
(***************************************************************************)
(* Monte Carlo price-path simulator (src/src/simulator.py) and the         *)
(* Analytics session (src/src/analytics.py).                               *)
(*                                                                         *)
(* Numbers.  A numpy float is modelled by an exact extended rational       *)
(* <<n, d>>: d > 0 is the finite value n/d (kept in lowest terms),         *)
(* <<0, 0>> is NaN, <<1, 0>> is +inf and <<-1, 0>> is -inf.  Arithmetic    *)
(* follows IEEE-754 for the special values (0/0 = NaN, x/0 = +-inf,        *)
(* inf - inf = NaN, every comparison with NaN is false) and is exact on    *)
(* finite values, so rounding error is not modelled.                       *)
(*                                                                         *)
(* Logarithms.  Prices are taken from the grid {0} \cup {2^k}, and np.log  *)
(* and np.exp are modelled in base 2 on that grid (Log(2^k) = k,           *)
(* Log(0) = -inf, Exp(k) = 2^k).  Base 2 differs from base e by a positive *)
(* constant factor, which changes no sign, no comparison between log       *)
(* returns and no zero test.                                               *)
(*                                                                         *)
(* Square roots.  np.sqrt(x) is kept as the symbolic value                 *)
(* [sqrt |-> x]; it is zero exactly when x is zero.                        *)
(***************************************************************************)
EXTENDS Integers, Sequences, FiniteSets

\* ------------------------------------------------------------- bounds
MaxCells == 4        \* an Analytics price matrix has at most this many entries
MaxSimLen == 60      \* SpecValidity: simulated steps 0 .. MaxSimLen
MaxHistV == 100      \* SpecValidity: len_history 0 .. MaxHistV
MaxDays == 2         \* SpecSim: days ranges over -1 .. MaxDays
MaxIter == 2         \* SpecSim: iterations ranges over -1 .. MaxIter
MaxCloses == 4       \* SpecHist: a closing-price series has 0 .. MaxCloses points

\* ------------------------------------------------------------- floats
NaN == <<0, 0>>
Inf == <<1, 0>>
NegInf == <<-1, 0>>
Zero == <<0, 1>>

Abs(x) == IF x < 0 THEN -x ELSE x
Sign(x) == IF x < 0 THEN -1 ELSE IF x > 0 THEN 1 ELSE 0

RECURSIVE GCD(_, _)
GCD(a, b) == IF b = 0 THEN a ELSE GCD(b, a % b)

\* the float n/d for integers n, d (d = 0 gives NaN or +-inf, as a float division does)
Frac(n, d) ==
    IF d = 0 THEN <<Sign(n), 0>>
    ELSE LET s == Sign(d)
             g == GCD(Abs(n), Abs(d))
         IN  <<(s * n) \div g, (s * d) \div g>>

FromInt(i) == <<i, 1>>
IsNaN(a) == a = NaN
IsFinite(a) == a[2] > 0
IsZero(a) == IsFinite(a) /\ a[1] = 0

FNeg(a) == <<-a[1], a[2]>>

FAdd(a, b) ==
    IF IsNaN(a) \/ IsNaN(b) THEN NaN
    ELSE IF ~IsFinite(a) /\ ~IsFinite(b) THEN (IF a = b THEN a ELSE NaN)
    ELSE IF ~IsFinite(a) THEN a
    ELSE IF ~IsFinite(b) THEN b
    ELSE LET g == GCD(a[2], b[2])
         IN  Frac(a[1] * (b[2] \div g) + b[1] * (a[2] \div g), (a[2] \div g) * b[2])

FSub(a, b) == FAdd(a, FNeg(b))

FMul(a, b) ==
    IF IsNaN(a) \/ IsNaN(b) THEN NaN
    ELSE IF ~IsFinite(a) \/ ~IsFinite(b)
         THEN <<Sign(a[1]) * Sign(b[1]), 0>>
    ELSE LET g == GCD(Abs(a[1]), b[2])
             h == GCD(Abs(b[1]), a[2])
         IN  Frac((a[1] \div g) * (b[1] \div h), (a[2] \div h) * (b[2] \div g))

FDiv(a, b) ==
    IF IsNaN(a) \/ IsNaN(b) THEN NaN
    ELSE IF ~IsFinite(a) /\ ~IsFinite(b) THEN NaN
    ELSE IF ~IsFinite(a) THEN <<a[1] * (IF b[1] < 0 THEN -1 ELSE 1), 0>>
    ELSE IF ~IsFinite(b) THEN Zero
    ELSE FMul(a, IF b[1] = 0 THEN Inf ELSE Frac(b[2], b[1]))

\* a < b on floats; false as soon as one side is NaN
FLess(a, b) ==
    IF IsNaN(a) \/ IsNaN(b) THEN FALSE
    ELSE IF a = b THEN FALSE
    ELSE IF a = NegInf \/ b = Inf THEN TRUE
    ELSE IF a = Inf \/ b = NegInf THEN FALSE
    ELSE a[1] * b[2] < b[1] * a[2]

FGreater(a, b) == FLess(b, a)
FLeq(a, b) == ~IsNaN(a) /\ ~IsNaN(b) /\ ~FLess(b, a)
FGeq(a, b) == FLeq(b, a)

\* np.maximum of two floats: NaN propagates
FMax(a, b) == IF IsNaN(a) \/ IsNaN(b) THEN NaN ELSE IF FLess(a, b) THEN b ELSE a

Sqrt(x) == [sqrt |-> x]
SqrtIsZero(r) == IsZero(r.sqrt)

\* ------------------------------------------------------------- arrays
None == <<>>

RECURSIVE SumSeq(_)
SumSeq(s) == IF s = <<>> THEN Zero ELSE FAdd(s[1], SumSeq(Tail(s)))

\* np.mean of a 1-D array; the mean of an empty array is 0/0 = NaN
Mean(s) == FDiv(SumSeq(s), FromInt(Len(s)))

Square(a) == FMul(a, a)
SquareAll(s) == [i \in 1..Len(s) |-> Square(s[i])]

\* np.std: the population standard deviation
Variance(s) == LET m == Mean(s) IN Mean([i \in 1..Len(s) |-> Square(FSub(s[i], m))])
Std(s) == Sqrt(Variance(s))

RECURSIVE Insert(_, _)
Insert(x, s) ==
    IF s = <<>> THEN <<x>>
    ELSE IF FLeq(x, s[1]) THEN <<x>> \o s
    ELSE <<s[1]>> \o Insert(x, Tail(s))

RECURSIVE Sorted(_)
Sorted(s) == IF s = <<>> THEN <<>> ELSE Insert(s[1], Sorted(Tail(s)))

Min(a, b) == IF a < b THEN a ELSE b

\* np.percentile(s, q), linear interpolation between the two closest ranks
Percentile(s, q) ==
    IF \E i \in 1..Len(s) : IsNaN(s[i]) THEN NaN
    ELSE LET n == Len(s)
             a == Sorted(s)
             pos == q * (n - 1)
             lo == pos \div 100
             hi == Min(lo + 1, n - 1)
             t == Frac(pos % 100, 100)
         IN  FAdd(a[lo + 1], FMul(FSub(a[hi + 1], a[lo + 1]), t))

RECURSIVE Flatten(_)
Flatten(m) == IF m = <<>> THEN <<>> ELSE m[1] \o Flatten(Tail(m))

NumRows(m) == Len(m)
NumCols(m) == Len(m[1])
ToFloats(m) == [i \in 1..NumRows(m) |-> [j \in 1..NumCols(m) |-> FromInt(m[i][j])]]
\* price_matrix[:, -1]
LastColumn(m) == [i \in 1..NumRows(m) |-> FromInt(m[i][NumCols(m)])]

RECURSIVE MaxSeq(_)
MaxSeq(s) == IF Len(s) = 1 THEN s[1] ELSE FMax(s[1], MaxSeq(Tail(s)))

RECURSIVE Log2(_)
Log2(p) == IF p <= 1 THEN 0 ELSE 1 + Log2(p \div 2)

\* np.log of a float whose numerator and denominator are powers of two
Log(a) ==
    IF IsNaN(a) \/ a = NegInf THEN NaN
    ELSE IF a = Inf THEN Inf
    ELSE IF a[1] < 0 THEN NaN
    ELSE IF a[1] = 0 THEN NegInf
    ELSE FromInt(Log2(a[1]) - Log2(a[2]))

\* ------------------------------------------------------------- state
VARIABLES
    price_matrix,            \* Analytics.price_matrix: rows of integer prices
    start_price,             \* Analytics.start_price
    len_history,             \* Analytics.len_history
    len_simulation,          \* Analytics.len_simulation
    annual_periods,          \* Analytics.annual_periods
    _drawdown_cache,         \* Analytics._drawdown_cache (None until computed)
    _log_return_cache,       \* Analytics._log_return_cache (None until computed)
    last_op,                 \* the function or method called last ("none" before any call)
    args,                    \* the arguments of that call
    result,                  \* the value it returned
    raised,                  \* the exception it raised ("" when it returned)
    drawdown_computations,   \* how many times line 104-105 of analytics.py ran
    log_return_computations  \* how many times line 110 of analytics.py ran

vars == <<price_matrix, start_price, len_history, len_simulation, annual_periods,
          _drawdown_cache, _log_return_cache, last_op, args, result, raised,
          drawdown_computations, log_return_computations>>

fields == <<price_matrix, start_price, len_history, len_simulation, annual_periods>>
caches == <<_drawdown_cache, _log_return_cache, drawdown_computations,
            log_return_computations>>

DefaultAnnualPeriods == 252

\* ------------------------------------------------------------- Analytics
\* final_price > start_price, as the 0/1 array np.mean averages
GreaterThan(s, x) == [i \in 1..Len(s) |-> IF FGreater(s[i], x) THEN FromInt(1) ELSE Zero]

get_final_stats ==
    LET final_price == LastColumn(price_matrix)
    IN  [mean |-> Mean(final_price),
         probability_of_profit |-> Mean(GreaterThan(final_price, FromInt(start_price))),
         std_dev |-> Std(final_price)]

\* final_price[final_price < fifth_perc]
Below(s, x) == LET Test(v) == FLess(v, x) IN SelectSeq(s, Test)

cvar_dollar_of(final_price, fifth_perc) ==
    FSub(FromInt(start_price), Mean(Below(final_price, fifth_perc)))

get_risk_metrics ==
    LET final_price == LastColumn(price_matrix)
        fifth_perc == Percentile(final_price, 5)
        var_dollar == FSub(FromInt(start_price), fifth_perc)
        cvar_dollar == cvar_dollar_of(final_price, fifth_perc)
    IN  [var_dollar |-> var_dollar,
         cvar_dollar |-> cvar_dollar,
         var_pct |-> FDiv(var_dollar, FromInt(start_price)),
         cvar_pct |-> FDiv(cvar_dollar, FromInt(start_price))]

\* the maximum of the whole row at every step, in place of the running maximum
PeaksOfWholeRow(row) == [j \in 1..Len(row) |-> MaxSeq(row)]

\* np.maximum.accumulate along a row
Peaks(row) == [j \in 1..Len(row) |-> MaxSeq(SubSeq(row, 1, j))]

DrawdownEntry(peak, price) == FDiv(FSub(peak, price), peak)

DrawdownMatrix(pm) ==
    LET m == ToFloats(pm)
    IN  [i \in 1..NumRows(m) |->
            LET peaks == Peaks(m[i])
            IN  [j \in 1..NumCols(m) |-> DrawdownEntry(peaks[j], m[i][j])]]

\* np.diff(np.log(price_matrix), axis=1)
LogReturnMatrix(pm) ==
    LET m == ToFloats(pm)
    IN  [i \in 1..NumRows(m) |->
            [j \in 1..(NumCols(m) - 1) |-> FSub(Log(m[i][j + 1]), Log(m[i][j]))]]

\* the "is None" test dropped: the matrix is recomputed on every access
DrawdownCacheAlwaysMiss(cache) == TRUE

\* "if self._drawdown_cache is None", on the cache value the call finds
DrawdownCacheMiss(cache) == cache = None
LogReturnCacheMiss(cache) == cache = None

\* _calculate_drawdown_matrix: the cache after the call, which is also what it returns
_calculate_drawdown_matrix(cache) ==
    IF DrawdownCacheMiss(cache) THEN DrawdownMatrix(price_matrix) ELSE cache
CountDrawdown(cache, n) == IF DrawdownCacheMiss(cache) THEN n + 1 ELSE n

_calculate_log_return_matrix(cache) ==
    IF LogReturnCacheMiss(cache) THEN LogReturnMatrix(price_matrix) ELSE cache
CountLogReturn(cache, n) == IF LogReturnCacheMiss(cache) THEN n + 1 ELSE n

\* x * np.sqrt(annual_periods), with the square root kept symbolic
Annualized(x) == [value |-> x, times |-> Sqrt(FromInt(annual_periods))]

get_annualized_volatility(log_returns) == Annualized(Std(Flatten(log_returns)))

RowMax(m) == [i \in 1..NumRows(m) |-> MaxSeq(m[i])]

get_average_maximum_drawdown(drawdown) == Percentile(RowMax(drawdown), 95)

\* np.mean(np.sqrt(squared_mean_drawdown)): the roots stay symbolic
get_ulcer_index(drawdown) ==
    [mean_of |-> [i \in 1..NumRows(drawdown) |-> Sqrt(Mean(SquareAll(drawdown[i])))]]

\* np.log(1 + risk_free_rate) / self.annual_periods
rf_rate_period(risk_free_rate) ==
    FDiv(Log(FAdd(FromInt(1), risk_free_rate)), FromInt(annual_periods))

get_expected_sharpe_ratio(period_return, risk_free_rate) ==
    LET flat == Flatten(period_return)
    IN  Annualized([num |-> FSub(Mean(flat), rf_rate_period(risk_free_rate)),
                    den |-> Std(flat)])

\* np.where(excess_return < 0, excess_return, 0)
Downside(excess) == [i \in 1..Len(excess) |-> IF FLess(excess[i], Zero) THEN excess[i] ELSE Zero]

Exact(x) == [exact |-> x]

\* the "== 0" guard dropped: the ratio is always the quotient
get_expected_sortino_ratio_unguarded(period_return, risk_free_rate) ==
    LET flat == Flatten(period_return)
        rf == rf_rate_period(risk_free_rate)
        excess_return == [i \in 1..Len(flat) |-> FSub(flat[i], rf)]
        root_mean_square_return == Sqrt(Mean(SquareAll(Downside(excess_return))))
    IN  Annualized([num |-> FSub(Mean(flat), rf), den |-> root_mean_square_return])

get_expected_sortino_ratio(period_return, risk_free_rate) ==
    LET flat == Flatten(period_return)
        rf == rf_rate_period(risk_free_rate)
        excess_return == [i \in 1..Len(flat) |-> FSub(flat[i], rf)]
        downside_returns == Downside(excess_return)
        root_mean_square_return == Sqrt(Mean(SquareAll(downside_returns)))
    IN  IF SqrtIsZero(root_mean_square_return)
        THEN Exact(Zero)
        ELSE Annualized([num |-> FSub(Mean(flat), rf), den |-> root_mean_square_return])

Half == Frac(5, 10)
ThreeTenths == Frac(3, 10)

\* both thresholds tested with >= in place of >
validity_check_inclusive ==
    IF FGeq(FromInt(len_simulation), FMul(Half, FromInt(len_history)))
    THEN [status |-> "Critical",
          reason |-> "Not enough historical data for simulation of this length"]
    ELSE IF FGeq(FromInt(len_simulation), FMul(ThreeTenths, FromInt(len_history)))
    THEN [status |-> "Warning",
          reason |-> "Simulation duration is long relative to historical data"]
    ELSE [status |-> "Safe", reason |-> ""]

validity_check ==
    IF FGreater(FromInt(len_simulation), FMul(Half, FromInt(len_history)))
    THEN [status |-> "Critical",
          reason |-> "Not enough historical data for simulation of this length"]
    ELSE IF FGreater(FromInt(len_simulation), FMul(ThreeTenths, FromInt(len_history)))
    THEN [status |-> "Warning",
          reason |-> "Simulation duration is long relative to historical data"]
    ELSE [status |-> "Safe", reason |-> ""]

\* float(...) around a leaf changes its numpy type, not its value
get_summary(risk_free_rate) ==
    LET final_stats == get_final_stats
        risk == get_risk_metrics
        validity == validity_check
        log1 == _calculate_log_return_matrix(_log_return_cache)
        volatility == get_annualized_volatility(log1)
        dd1 == _calculate_drawdown_matrix(_drawdown_cache)
        dd2 == _calculate_drawdown_matrix(dd1)
        log2 == _calculate_log_return_matrix(log1)
        log3 == _calculate_log_return_matrix(log2)
    IN  [metadata |->
            [start_price |-> FromInt(start_price),
             history_length |-> len_history,
             simulation_length |-> len_simulation,
             validity_check |-> validity],
         performance |->
            [mean_final_price |-> final_stats.mean,
             volatility |-> volatility,
             final_spread |-> final_stats.std_dev,
             probability_of_profit |-> final_stats.probability_of_profit],
         risk |->
            [ulcer_index |-> get_ulcer_index(dd1),
             average_maximum_drawdown |-> get_average_maximum_drawdown(dd2),
             value_at_risk_dollar |-> risk.var_dollar,
             value_at_risk_pct |-> risk.var_pct,
             conditional_var_dollar |-> risk.cvar_dollar,
             conditional_var_pct |-> risk.cvar_pct,
             sortino_ratio |-> get_expected_sortino_ratio(log2, risk_free_rate),
             sharpe_ratio |-> get_expected_sharpe_ratio(log3, risk_free_rate)]]

\* ------------------------------------------------------------- session inputs
Prices == {0, 1, 2}
Shapes == {sh \in (1..MaxCells) \X (1..MaxCells) : sh[1] * sh[2] <= MaxCells}
Matrices == UNION {[1..sh[1] -> [1..sh[2] -> Prices]] : sh \in Shapes}
HistoryLengths == {3}
\* annual rates r with 1 + r on the grid of powers of two: 0% and 100%
RiskFreeRates == {Zero, FromInt(1)}

\* Analytics.__init__(price_matrix, len_history) with the default annual_periods
AnalyticsInit(pm, lh) ==
    /\ price_matrix = pm
    /\ start_price = pm[1][1]
    /\ len_history = lh
    /\ len_simulation = NumCols(pm) - 1
    /\ annual_periods = DefaultAnnualPeriods
    /\ _drawdown_cache = None
    /\ _log_return_cache = None

NoCall ==
    /\ last_op = "none"
    /\ args = <<>>
    /\ result = <<>>
    /\ raised = ""
    /\ drawdown_computations = 0
    /\ log_return_computations = 0

Init == \E pm \in Matrices, lh \in HistoryLengths : AnalyticsInit(pm, lh) /\ NoCall

Returns(op, a, r) ==
    /\ last_op' = op
    /\ args' = a
    /\ result' = r
    /\ raised' = ""

Raises(op, a, e) ==
    /\ last_op' = op
    /\ args' = a
    /\ result' = <<>>
    /\ raised' = e

UsesDrawdown(cache) ==
    /\ _drawdown_cache' = cache
    /\ drawdown_computations' = CountDrawdown(_drawdown_cache, drawdown_computations)
    /\ UNCHANGED <<_log_return_cache, log_return_computations>>

UsesLogReturn(cache) ==
    /\ _log_return_cache' = cache
    /\ log_return_computations' = CountLogReturn(_log_return_cache, log_return_computations)
    /\ UNCHANGED <<_drawdown_cache, drawdown_computations>>

GetFinalStats ==
    /\ Returns("get_final_stats", <<>>, get_final_stats)
    /\ UNCHANGED <<fields, caches>>

GetRiskMetrics ==
    /\ Returns("get_risk_metrics", <<>>, get_risk_metrics)
    /\ UNCHANGED <<fields, caches>>

ValidityCheck ==
    /\ Returns("validity_check", <<>>, validity_check)
    /\ UNCHANGED <<fields, caches>>

GetAnnualizedVolatility ==
    LET log_returns == _calculate_log_return_matrix(_log_return_cache)
    IN  /\ Returns("get_annualized_volatility", <<>>, get_annualized_volatility(log_returns))
        /\ UsesLogReturn(log_returns)
        /\ UNCHANGED fields

GetAverageMaximumDrawdown ==
    LET drawdown == _calculate_drawdown_matrix(_drawdown_cache)
    IN  /\ Returns("get_average_maximum_drawdown", <<>>, get_average_maximum_drawdown(drawdown))
        /\ UsesDrawdown(drawdown)
        /\ UNCHANGED fields

GetUlcerIndex ==
    LET drawdown == _calculate_drawdown_matrix(_drawdown_cache)
    IN  /\ Returns("get_ulcer_index", <<>>, get_ulcer_index(drawdown))
        /\ UsesDrawdown(drawdown)
        /\ UNCHANGED fields

GetExpectedSharpeRatio ==
    \E risk_free_rate \in RiskFreeRates :
        LET period_return == _calculate_log_return_matrix(_log_return_cache)
        IN  /\ Returns("get_expected_sharpe_ratio", <<risk_free_rate>>,
                       get_expected_sharpe_ratio(period_return, risk_free_rate))
            /\ UsesLogReturn(period_return)
            /\ UNCHANGED fields

GetExpectedSortinoRatio ==
    \E risk_free_rate \in RiskFreeRates :
        LET period_return == _calculate_log_return_matrix(_log_return_cache)
        IN  /\ Returns("get_expected_sortino_ratio", <<risk_free_rate>>,
                       get_expected_sortino_ratio(period_return, risk_free_rate))
            /\ UsesLogReturn(period_return)
            /\ UNCHANGED fields

GetSummary ==
    \E risk_free_rate \in RiskFreeRates :
        LET log1 == _calculate_log_return_matrix(_log_return_cache)
            log2 == _calculate_log_return_matrix(log1)
            dd1 == _calculate_drawdown_matrix(_drawdown_cache)
        IN  /\ Returns("get_summary", <<risk_free_rate>>, get_summary(risk_free_rate))
            /\ _log_return_cache' = _calculate_log_return_matrix(log2)
            /\ log_return_computations' =
                   CountLogReturn(log2, CountLogReturn(log1,
                       CountLogReturn(_log_return_cache, log_return_computations)))
            /\ _drawdown_cache' = _calculate_drawdown_matrix(dd1)
            /\ drawdown_computations' =
                   CountDrawdown(dd1, CountDrawdown(_drawdown_cache, drawdown_computations))
            /\ UNCHANGED fields

Next ==
    \/ GetFinalStats
    \/ GetRiskMetrics
    \/ ValidityCheck
    \/ GetAnnualizedVolatility
    \/ GetAverageMaximumDrawdown
    \/ GetUlcerIndex
    \/ GetExpectedSharpeRatio
    \/ GetExpectedSortinoRatio
    \/ GetSummary

Spec == Init /\ [][Next]_vars

\* ------------------------------------------------------------- validity check
\* simulator.validity_check(len_history, len_simulation), the function form
sim_validity_check(lh, ls) ==
    IF FGreater(FromInt(ls), FMul(Half, FromInt(lh)))
    THEN "Critical: Not enough historical data for simulation of this length"
    ELSE IF FGreater(FromInt(ls), FMul(ThreeTenths, FromInt(lh)))
    THEN "Warning: Simulation duration is long relative to historical data"
    ELSE "Safe"

\* the function form, called with the lengths the session holds
SimValidityCheck ==
    /\ Returns("simulator.validity_check", <<len_history, len_simulation>>,
               sim_validity_check(len_history, len_simulation))
    /\ UNCHANGED <<fields, caches>>

\* one trajectory of ls simulated steps at a constant price
FlatPath(ls) == <<[j \in 1..(ls + 1) |-> 1]>>

InitValidity ==
    \E ls \in 0..MaxSimLen, lh \in 0..MaxHistV : AnalyticsInit(FlatPath(ls), lh) /\ NoCall

NextValidity ==
    \/ ValidityCheck
    \/ SimValidityCheck

SpecValidity == InitValidity /\ [][NextValidity]_vars

\* ------------------------------------------------------------- simulator
\* no Analytics object exists
NoSession ==
    /\ price_matrix = None
    /\ start_price = 0
    /\ len_history = 0
    /\ len_simulation = 0
    /\ annual_periods = DefaultAnnualPeriods
    /\ _drawdown_cache = None
    /\ _log_return_cache = None
    /\ drawdown_computations = 0
    /\ log_return_computations = 0

\* a call that has its arguments and has not run yet
Pending(a) ==
    /\ last_op = "none"
    /\ args = a
    /\ result = <<>>
    /\ raised = ""

RECURSIVE Pow2(_)
Pow2(k) == IF k = 0 THEN 1 ELSE 2 * Pow2(k - 1)

\* np.exp on the grid: the exponent is an integer number of log units
Exp(a) ==
    IF IsNaN(a) THEN NaN
    ELSE IF a = Inf THEN Inf
    ELSE IF a = NegInf THEN Zero
    ELSE IF a[1] >= 0 THEN Frac(Pow2(a[1]), 1)
    ELSE Frac(1, Pow2(-a[1]))

\* mu - 0.5*(sigma**2)
drift(mu, sigma) == FSub(FromInt(mu), FMul(Half, FromInt(sigma * sigma)))

\* np.exp dropped: the daily factor is the exponent itself
daily_change_without_exp(d, shock) == FAdd(d, shock)

\* np.exp(drift + shock_z_matrix), one entry
daily_change(d, shock) == Exp(FAdd(d, shock))

\* np.cumprod along a row
RECURSIVE CumProd(_)
CumProd(row) ==
    IF row = <<>> THEN <<>>
    ELSE LET init == CumProd(SubSeq(row, 1, Len(row) - 1))
         IN  IF init = <<>> THEN <<row[1]>>
             ELSE Append(init, FMul(init[Len(init)], row[Len(row)]))

\* np.hstack((np.full((iterations, 1), last_price), price_paths)), one row
hstack(last_price, row) == <<FromInt(last_price)>> \o row

\* generate_price_paths, given the standard-normal draws z (iterations x days)
generate_price_paths(stats, z) ==
    LET d == drift(stats.mu, stats.sigma)
    IN  [i \in 1..Len(z) |->
            LET shock_z == [t \in 1..Len(z[i]) |-> FMul(FromInt(stats.sigma), FromInt(z[i][t]))]
                change == [t \in 1..Len(z[i]) |-> daily_change(d, shock_z[t])]
                cum == CumProd(change)
                price_paths == [t \in 1..Len(cum) |-> FMul(FromInt(stats.last_price), cum[t])]
            IN  hstack(stats.last_price, price_paths)]

Mus == {-1, 0, 1}
Sigmas == {0, 2}
LastPrices == {0, 1, 2}
\* the values a standard-normal draw takes in the model
Draws == {-1, 0, 1}

GeneratePricePaths ==
    /\ last_op = "none"
    /\ IF args.days < 0 \/ args.iterations < 0
       THEN Raises("generate_price_paths", args, "ValueError")
       ELSE \E z \in [1..args.iterations -> [1..args.days -> Draws]] :
                Returns("generate_price_paths", args, generate_price_paths(args.stats, z))
    /\ UNCHANGED <<fields, caches>>

InitSim ==
    /\ NoSession
    /\ \E mu \in Mus, sigma \in Sigmas, last_price \in LastPrices,
          days \in -1..MaxDays, iterations \in -1..MaxIter :
            Pending([stats |-> [mu |-> mu, sigma |-> sigma, last_price |-> last_price],
                     days |-> days, iterations |-> iterations])

NextSim == GeneratePricePaths

SpecSim == InitSim /\ [][NextSim]_vars

\* ------------------------------------------------------------- historical statistics
\* np.log(data["Close"] / data["Close"].shift(1)): the first entry has no predecessor
CloseLogReturns(close) ==
    [i \in 1..Len(close) |->
        IF i = 1 THEN NaN ELSE Log(FDiv(FromInt(close[i]), FromInt(close[i - 1])))]

dropna(s) == LET Kept(v) == ~IsNaN(v) IN SelectSeq(s, Kept)

\* pandas Series.std: the sample standard deviation (ddof = 1), NaN below two values
SampleStd(s) ==
    IF Len(s) < 2 THEN Sqrt(NaN)
    ELSE LET m == Mean(s)
         IN  Sqrt(FDiv(SumSeq([i \in 1..Len(s) |-> Square(FSub(s[i], m))]),
                       FromInt(Len(s) - 1)))

Closes == {1, 2, 4}
CloseSeries == UNION {[1..n -> Closes] : n \in 0..MaxCloses}

\* data["Close"].iloc[-1] raises IndexError on an empty series
CalculateAnalytics ==
    /\ last_op = "none"
    /\ LET log_returns == dropna(CloseLogReturns(args))
       IN  IF Len(args) = 0
           THEN Raises("calculate_analytics", args, "IndexError")
           ELSE Returns("calculate_analytics", args,
                        [mu |-> Mean(log_returns),
                         sigma |-> SampleStd(log_returns),
                         last_price |-> args[Len(args)]])
    /\ UNCHANGED <<fields, caches>>

InitHist == NoSession /\ \E close \in CloseSeries : Pending(close)

NextHist == CalculateAnalytics

SpecHist == InitHist /\ [][NextHist]_vars

\* ------------------------------------------------------------- claims
Called(op) == last_op = op /\ raised = ""

\* fewer than 2 columns or a non-positive entry (every modelled matrix is 2-dimensional)
Malformed(pm) ==
    \/ NumCols(pm) < 2
    \/ \E i \in 1..NumRows(pm) : \E j \in 1..NumCols(pm) : pm[i][j] <= 0

FifthPercentile == Percentile(LastColumn(price_matrix), 5)
NoneBelowFifthPercentile == Below(LastColumn(price_matrix), FifthPercentile) = <<>>

\* C1: on a malformed price matrix (fewer than 2 columns, or a non-positive entry)
\* no metric call returns a value: the session fails fast with an error instead.
C1_MalformedMatrixFailsFast ==
    (Malformed(price_matrix) /\ last_op # "none") => raised # ""

\* C2: generate_price_paths called with days <= 0 or iterations <= 0 raises an
\* error and never returns a matrix.
C2_NonPositiveDaysOrIterationsRejected ==
    (last_op = "generate_price_paths" /\ (args.days <= 0 \/ args.iterations <= 0))
        => raised # ""

\* C3: when no terminal price is strictly below the 5th percentile, cvar_dollar and
\* cvar_pct of get_risk_metrics, and the conditional_var_* leaves of get_summary,
\* are a defined value and never NaN (stated here for well-formed price matrices).
C3_CvarFallbackDefined ==
    (~Malformed(price_matrix) /\ NoneBelowFifthPercentile) =>
        /\ Called("get_risk_metrics") =>
               ~IsNaN(result.cvar_dollar) /\ ~IsNaN(result.cvar_pct)
        /\ Called("get_summary") =>
               /\ ~IsNaN(result.risk.conditional_var_dollar)
               /\ ~IsNaN(result.risk.conditional_var_pct)

\* C4: calculate_analytics on a series of fewer than 2 closes raises an error and
\* never returns a statistics dictionary.
C4_ShortSeriesRejected ==
    (last_op = "calculate_analytics" /\ Len(args) < 2) => raised # ""

\* C5: validity_check is "Critical" exactly when simulation_length > 0.5 * len_history,
\* "Warning" exactly when 0.3 * len_history < simulation_length <= 0.5 * len_history,
\* and "Safe" otherwise, with simulation_length the number of columns minus 1; so
\* (100, 60) is Critical, (100, 40) is Warning and (100, 20) is Safe. The function
\* form in simulator.py gives the same verdict.
Verdict(lh, ls) ==
    IF 2 * ls > lh THEN "Critical" ELSE IF 10 * ls > 3 * lh THEN "Warning" ELSE "Safe"

C5_ValidityVerdict ==
    /\ Called("validity_check") =>
          /\ len_simulation = NumCols(price_matrix) - 1
          /\ result.status \in {"Critical", "Warning", "Safe"}
          /\ result.status = "Critical" <=> 2 * len_simulation > len_history
          /\ result.status = "Warning" <=>
                 (10 * len_simulation > 3 * len_history /\ 2 * len_simulation <= len_history)
          /\ (len_history = 100 /\ len_simulation = 60) => result.status = "Critical"
          /\ (len_history = 100 /\ len_simulation = 40) => result.status = "Warning"
          /\ (len_history = 100 /\ len_simulation = 20) => result.status = "Safe"
    /\ Called("simulator.validity_check") =>
          LET v == Verdict(args[1], args[2])
          IN  /\ v = "Critical" =>
                  result = "Critical: Not enough historical data for simulation of this length"
              /\ v = "Warning" =>
                  result = "Warning: Simulation duration is long relative to historical data"
              /\ v = "Safe" => result = "Safe"

C5_Witness ==
    /\ Called("validity_check")
    /\ len_history = 100
    /\ len_simulation = 40
    /\ result.status = "Warning"

\* C6: for days > 0, iterations > 0 and last_price > 0 the call returns a matrix of
\* shape (iterations, days+1) whose column 0 is last_price in every row, whose
\* entries are all strictly positive, and in which each entry is the one before it
\* in its row times a strictly positive factor.
ValidSimArgs == args.days > 0 /\ args.iterations > 0 /\ args.stats.last_price > 0

C6_PricePathsShapeAndPositivity ==
    (last_op = "generate_price_paths" /\ ValidSimArgs) =>
        /\ raised = ""
        /\ Len(result) = args.iterations
        /\ \A i \in 1..Len(result) :
              /\ Len(result[i]) = args.days + 1
              /\ result[i][1] = FromInt(args.stats.last_price)
              /\ \A t \in 1..Len(result[i]) : FGreater(result[i][t], Zero)
              /\ \A t \in 2..Len(result[i]) :
                    FGreater(FDiv(result[i][t], result[i][t - 1]), Zero)

C6_Witness ==
    /\ Called("generate_price_paths")
    /\ ValidSimArgs
    /\ args.days >= 2
    /\ args.iterations >= 2
    /\ FLess(result[1][2], result[1][1])
    /\ FGreater(result[2][3], result[2][1])

\* C7: in get_risk_metrics, if the 5th percentile of the terminal prices is below the
\* start price then var_dollar >= 0 and cvar_dollar >= 0; and if more than one
\* terminal price is strictly below the 5th percentile then cvar_dollar >= var_dollar
\* (stated here for well-formed price matrices).
C7_VarCvarNonNegative ==
    (~Malformed(price_matrix) /\ Called("get_risk_metrics")) =>
        /\ FLess(FifthPercentile, FromInt(start_price)) =>
               FGeq(result.var_dollar, Zero) /\ FGeq(result.cvar_dollar, Zero)
        /\ Len(Below(LastColumn(price_matrix), FifthPercentile)) > 1 =>
               FGeq(result.cvar_dollar, result.var_dollar)

\* C8: get_expected_sortino_ratio returns exactly 0, without an error, whenever the
\* matrix has at least one per-step log return and every one of them is greater than
\* or equal to the per-period risk-free rate ln(1 + risk_free_rate) / annual_periods.
NoReturnBelow(rf) ==
    LET flat == Flatten(LogReturnMatrix(price_matrix))
    IN  Len(flat) > 0 /\ \A k \in 1..Len(flat) : FGeq(flat[k], rf)

IsExactZero(v) == DOMAIN v = {"exact"} /\ v.exact = Zero

C8_SortinoZeroWithoutDownside ==
    /\ (last_op = "get_expected_sortino_ratio" /\ NoReturnBelow(rf_rate_period(args[1])))
           => raised = "" /\ IsExactZero(result)
    /\ (last_op = "get_summary" /\ NoReturnBelow(rf_rate_period(args[1])))
           => raised = "" /\ IsExactZero(result.risk.sortino_ratio)

C8_Witness ==
    /\ Called("get_expected_sortino_ratio")
    /\ price_matrix = <<<<1, 2>>, <<1, 1>>>>
    /\ args[1] = Zero
    /\ IsExactZero(result)

\* C9: get_average_maximum_drawdown returns 0 for every price matrix (strictly
\* positive entries) that is non-decreasing along every row.
StrictlyPositive(pm) ==
    \A i \in 1..NumRows(pm) : \A j \in 1..NumCols(pm) : pm[i][j] > 0
NonDecreasingRows(pm) ==
    \A i \in 1..NumRows(pm) : \A j \in 1..(NumCols(pm) - 1) : pm[i][j] <= pm[i][j + 1]

C9_NoDrawdownOnNonDecreasingRows ==
    (StrictlyPositive(price_matrix) /\ NonDecreasingRows(price_matrix)) =>
        /\ last_op = "get_average_maximum_drawdown" => raised = "" /\ result = Zero
        /\ last_op = "get_summary" =>
               raised = "" /\ result.risk.average_maximum_drawdown = Zero

C9_Witness ==
    /\ Called("get_average_maximum_drawdown")
    /\ price_matrix = <<<<1, 2>>, <<1, 1>>>>
    /\ result = Zero

\* C10: both caches start empty; a cache is populated only by a call that needs it;
\* once populated it is never recomputed, reassigned or cleared; each matrix is
\* computed at most once; and no metric call changes the price matrix.
DrawdownUsers == {"get_average_maximum_drawdown", "get_ulcer_index", "get_summary"}
LogReturnUsers == {"get_annualized_volatility", "get_expected_sharpe_ratio",
                   "get_expected_sortino_ratio", "get_summary"}

CachesStartEmpty ==
    last_op = "none" =>
        /\ _drawdown_cache = None /\ drawdown_computations = 0
        /\ _log_return_cache = None /\ log_return_computations = 0

CacheStep ==
    /\ price_matrix' = price_matrix
    /\ _drawdown_cache # None =>
           /\ _drawdown_cache' = _drawdown_cache
           /\ drawdown_computations' = drawdown_computations
    /\ _log_return_cache # None =>
           /\ _log_return_cache' = _log_return_cache
           /\ log_return_computations' = log_return_computations
    /\ _drawdown_cache' # _drawdown_cache => last_op' \in DrawdownUsers
    /\ _log_return_cache' # _log_return_cache => last_op' \in LogReturnUsers
    /\ last_op' \in DrawdownUsers => _drawdown_cache' = DrawdownMatrix(price_matrix)
    /\ last_op' \in LogReturnUsers => _log_return_cache' = LogReturnMatrix(price_matrix)
    /\ drawdown_computations' <= 1
    /\ log_return_computations' <= 1

C10_CachesComputedOnce == CachesStartEmpty /\ [][CacheStep]_vars

C10_Witness ==
    /\ Called("get_summary")
    /\ _drawdown_cache # None
    /\ _log_return_cache # None
    /\ drawdown_computations = 1
    /\ log_return_computations = 1

====
